---- MODULE Spec2Model ----
(***************************************************************************)
(* webscrapetools key/value store (src/src/webscrapetools/keyvalue.py on   *)
(* top of osaccess.py): a digest-routed directory tree with an index file. *)
(*                                                                         *)
(* Python strings are sequences of one-character strings, so that paths,   *)
(* digests, node names and index lines are built, compared, split and      *)
(* parsed the way the code does it.  The hex widths are scaled: a node     *)
(* name has 2*NodeNameBytes hex digits (40 in the source) and a digest has *)
(* one hex digit (32 in the source); a digest is shorter than a node name  *)
(* in both.                                                                *)
(***************************************************************************)
EXTENDS Integers, Sequences, FiniteSets, TLC

VARIABLES
    CACHE_FILE_PATH,    \* keyvalue.py:13  None, or the absolute root path
    EXPIRY_DAYS,        \* keyvalue.py:14  NoneInt until set_store_path
    MAX_NODE_FILES,     \* keyvalue.py:15
    REBALANCING_LIMIT,  \* keyvalue.py:16
    now,                \* the wall clock (datetime.today()), in ticks
    dirs,               \* the directories that exist
    files,              \* content files: path -> payload
    index_exists,       \* whether <root>/index exists
    index_lines,        \* the lines of <root>/index
    outcome,            \* how the last call of the public API ended
    expect,             \* per key: the value of its last add, or NoValue
    live,               \* per key: the date of its last add, by the contract
    lock,               \* keyvalue.py:11  the thread holding __rebalancing
    threads             \* per thread: the call it runs and where it stands

vars == <<CACHE_FILE_PATH, EXPIRY_DAYS, MAX_NODE_FILES, REBALANCING_LIMIT, now,
          dirs, files, index_exists, index_lines, outcome, expect, live,
          lock, threads>>

config == <<CACHE_FILE_PATH, EXPIRY_DAYS, MAX_NODE_FILES, REBALANCING_LIMIT>>
disk == <<dirs, files, index_exists, index_lines>>
workers == <<lock, threads>>

----------------------------------------------------------------------------
(* Bounds of the model *)

\* ticks of the clock per calendar day (a datetime carries a time of day)
TicksPerDay == 2
\* the clock stops at MaxNow
MaxNow == 2
\* add is not called once the index holds this many lines
MaxIndexLen == 3

----------------------------------------------------------------------------
(* Python values *)

None == <<>>
NoneInt == -1
NoValue == "NoValue"

\* ord() of the characters that occur
OrdTable ==
    ("\n" :> 10) @@ (" " :> 32) @@ ("\"" :> 34) @@ ("'" :> 39) @@ ("/" :> 47)
    @@ ("0" :> 48) @@ ("1" :> 49) @@ ("2" :> 50) @@ ("3" :> 51) @@ ("4" :> 52)
    @@ ("5" :> 53) @@ ("6" :> 54) @@ ("7" :> 55) @@ ("8" :> 56) @@ ("9" :> 57)
    @@ (":" :> 58)
    @@ ("A" :> 65) @@ ("B" :> 66) @@ ("C" :> 67) @@ ("D" :> 68) @@ ("E" :> 69)
    @@ ("F" :> 70)
    @@ ("a" :> 97) @@ ("b" :> 98) @@ ("c" :> 99) @@ ("d" :> 100) @@ ("e" :> 101)
    @@ ("f" :> 102) @@ ("i" :> 105) @@ ("n" :> 110) @@ ("r" :> 114) @@ ("x" :> 120)

Ord(c) == OrdTable[c]

\* s <= t on Python strings
RECURSIVE StrLeq(_, _)
StrLeq(s, t) ==
    IF s = <<>> THEN TRUE
    ELSE IF t = <<>> THEN FALSE
    ELSE IF Head(s) = Head(t) THEN StrLeq(Tail(s), Tail(t))
    ELSE Ord(Head(s)) < Ord(Head(t))

\* sep.join(parts)
RECURSIVE Join(_, _)
Join(sep, parts) ==
    IF parts = <<>> THEN <<>>
    ELSE IF Len(parts) = 1 THEN parts[1]
    ELSE parts[1] \o sep \o Join(sep, Tail(parts))

\* s.split(sep) for a one-character sep: the pieces between the separators
RECURSIVE SplitFrom(_, _, _)
SplitFrom(s, sep, piece) ==
    IF s = <<>> THEN <<piece>>
    ELSE IF Head(s) = sep THEN <<piece>> \o SplitFrom(Tail(s), sep, <<>>)
    ELSE SplitFrom(Tail(s), sep, Append(piece, Head(s)))

Split(s, sep) == SplitFrom(s, sep, <<>>)

IsSpace(c) == c \in {" ", "\n"}

RECURSIVE LStrip(_)
LStrip(s) == IF s # <<>> /\ IsSpace(Head(s)) THEN LStrip(Tail(s)) ELSE s

RECURSIVE RStrip(_)
RStrip(s) ==
    IF s # <<>> /\ IsSpace(s[Len(s)]) THEN RStrip(SubSeq(s, 1, Len(s) - 1)) ELSE s

\* s.strip()
Strip(s) == RStrip(LStrip(s))

\* s[1:-1]
Slice1m1(s) == SubSeq(s, 2, Len(s) - 1)

HexUpper == <<"0", "1", "2", "3", "4", "5", "6", "7", "8", "9",
              "A", "B", "C", "D", "E", "F">>
HexLower == <<"0", "1", "2", "3", "4", "5", "6", "7", "8", "9",
              "a", "b", "c", "d", "e", "f">>

\* s.lower() on hex text
Lower(s) ==
    [i \in 1..Len(s) |->
        IF \E j \in 1..16 : HexUpper[j] = s[i]
        THEN HexLower[CHOOSE j \in 1..16 : HexUpper[j] = s[i]]
        ELSE s[i]]

HexDigit(c) == (CHOOSE j \in 1..16 : HexUpper[j] = c \/ HexLower[j] = c) - 1

\* int(s, 16)
RECURSIVE IntHex(_)
IntHex(s) ==
    IF s = <<>> THEN 0 ELSE 16 * IntHex(SubSeq(s, 1, Len(s) - 1)) + HexDigit(s[Len(s)])

\* the upper-case hex digits of n, most significant first, no padding
RECURSIVE HexDigits(_)
HexDigits(n) ==
    IF n < 16 THEN <<HexUpper[n + 1]>> ELSE Append(HexDigits(n \div 16), HexUpper[(n % 16) + 1])

\* '%0.<width>X' % n, for n >= 0: at least width digits, zero padded
FormatX(n, width) ==
    LET d == HexDigits(n)
    IN  [i \in 1..(IF Len(d) < width THEN width - Len(d) ELSE 0) |-> "0"] \o d

\* n >> k
RECURSIVE ShiftRight(_, _)
ShiftRight(n, k) == IF k = 0 THEN n ELSE ShiftRight(n \div 2, k - 1)

\* text * count
RECURSIVE Repeat(_, _)
Repeat(text, count) == IF count <= 0 THEN <<>> ELSE text \o Repeat(text, count - 1)

----------------------------------------------------------------------------
(* Keys, values, digests *)

\* A key is a Python object: a str or an int, with its text.
KeyA == [type |-> "str", text |-> <<"a">>]
KeyI5 == [type |-> "int", text |-> <<"5">>]
KeyAB == [type |-> "str", text |-> <<"a", " ", "b">>]

\* the keys the callers use: 'a', 5 and 'a b'
Keys == {KeyA, KeyI5, KeyAB}
Values == {"v1", "v2"}

\* the Python str with the given text
StrKey(text) == [type |-> "str", text |-> text]

\* str(key), what '%s' % key writes
Str(key) == key.text

\* repr(key): a str is quoted, an int is not
Repr(key) == IF key.type = "str" THEN <<"'">> \o key.text \o <<"'">> ELSE key.text

\* hashlib.md5(text).hexdigest(): one digest per text, no two alike
Md5Hex(text) ==
    CASE text = <<"'", "a", "'">> -> <<"1">>
      [] text = <<"5">> -> <<"9">>
      [] text = <<"'", "a", " ", "b", "'">> -> <<"3">>
      [] text = <<"'", "5", "'">> -> <<"c">>

----------------------------------------------------------------------------
(* osaccess: the filesystem *)
(* A path is kept as the list of its components; PathStr is its string.    *)

\* the filesystem the operations read and write
Disk == [dirs |-> dirs, files |-> files,
         index_exists |-> index_exists, index_lines |-> index_lines]

NoFiles == [p \in {} |-> NoValue]

SEP == <<"/">>
\* the working directory of the process
Cwd == <<"/">>
\* the store_path the callers pass: one directory, absolute and relative
StorePaths == {<<"/", "r">>, <<"r">>}
\* its absolute path
StoreRoot == <<<<"r">>>>

\* the string of an absolute path
PathStr(path) == SEP \o Join(SEP, path)

\* os.path.abspath of a path string: anchored at the working directory, the empty
\* components dropped
Abspath(text) ==
    LET full == IF text # <<>> /\ Head(text) = "/" THEN text ELSE Cwd \o SEP \o text
    IN  SelectSeq(Split(full, "/"), LAMBDA c : c # <<>>)

\* os.path.sep.join([path, filename])
build_file_path(path, filename) == Append(path, filename)

build_directory_path(path, filename) == Append(path, filename)

\* os.path.abspath(os.path.sep.join([path_prefix] + path + [filename]))
create_new_filepath(path_prefix, path, filename) ==
    Abspath(PathStr(path_prefix \o path \o <<filename>>))

merge_directory_paths(prefix, nodes_path) == prefix \o nodes_path

get_file_from_filepath(path) == path[Len(path)]

\* os.path.dirname
Dirname(path) == SubSeq(path, 1, Len(path) - 1)

IndexName == <<"i", "n", "d", "e", "x">>

\* the path of the index file of store root `root`
IndexPath(root) == build_file_path(root, IndexName)

IsFile(fs, path) ==
    \/ path \in DOMAIN fs.files
    \/ fs.index_exists /\ path = IndexPath(StoreRoot)

IsDir(fs, path) == path \in fs.dirs

exists_path(fs, filename) == IsFile(fs, filename) \/ IsDir(fs, filename)

\* os.makedirs when the path does not exist: the missing parents are made too
create_path_if_not_exists(fs, path) ==
    [fs EXCEPT !.dirs = @ \cup {SubSeq(path, 1, n) : n \in 1..Len(path)}]

\* function f without path
Without(f, path) == [p \in DOMAIN f \ {path} |-> f[p]]

\* function f with path mapped to content
With(f, path, content) ==
    [p \in DOMAIN f \cup {path} |-> IF p = path THEN content ELSE f[p]]

\* the move made by creating an empty target and removing the source
rename_path_empties(fs, old_path, new_path) ==
    [fs EXCEPT !.files = With(Without(@, old_path), new_path, NoValue)]

\* os.rename of a content file: the target is replaced
rename_path(fs, old_path, new_path) ==
    [fs EXCEPT !.files = With(Without(@, old_path), new_path, fs.files[old_path])]

\* remove_file with the test of os.path.isfile turned round: a file is left alone
\* (what is not a file makes os.remove raise the FileNotFoundError it catches)
remove_file_not_a_file(fs, filename) == fs

\* os.remove when the path is a file
remove_file(fs, filename) ==
    IF filename \in DOMAIN fs.files THEN [fs EXCEPT !.files = Without(@, filename)]
    ELSE IF IsFile(fs, filename) THEN [fs EXCEPT !.index_exists = FALSE, !.index_lines = <<>>]
    ELSE fs

remove_file_if_exists(fs, filename) ==
    IF exists_path(fs, filename) THEN remove_file(fs, filename) ELSE fs

\* whether path lies below directory top
Below(top, path) == Len(path) > Len(top) /\ SubSeq(path, 1, Len(top)) = top

\* os.listdir: the names directly under path
get_files_under_path(fs, path) ==
    {get_file_from_filepath(p) : p \in {q \in fs.dirs \cup DOMAIN fs.files : Dirname(q) = path}}
    \cup (IF IsFile(fs, IndexPath(path)) THEN {IndexName} ELSE {})

\* remove_all_under_path without the rmtree of its else branch
remove_all_under_path_files_only(fs, path) ==
    IF IsFile(fs, path) THEN remove_file(fs, path) ELSE fs

\* os.remove of a file, shutil.rmtree of a directory
remove_all_under_path(fs, path) ==
    IF IsFile(fs, path) THEN remove_file(fs, path)
    ELSE [fs EXCEPT !.dirs = {d \in @ : d # path /\ ~Below(path, d)},
                    !.files = [p \in {q \in DOMAIN @ : ~Below(path, q)} |-> @[p]]]

\* the number of lines of the file
file_size(fs, filename) == Len(fs.index_lines)

\* the names of a set, in string order
RECURSIVE Sorted(_)
Sorted(names) ==
    IF names = {} THEN <<>>
    ELSE LET least == CHOOSE n \in names : \A m \in names : StrLeq(n, m)
         IN  <<least>> \o Sorted(names \ {least})

\* the child directories of path, in name order
gen_directories_under(fs, path) ==
    Sorted({get_file_from_filepath(d) : d \in {q \in fs.dirs : q # <<>> /\ Dirname(q) = path}})

\* the names of the files directly under path
gen_files_under(fs, path) ==
    {get_file_from_filepath(p) : p \in {q \in DOMAIN fs.files : Dirname(q) = path}}
    \cup (IF IsFile(fs, IndexPath(path)) THEN {IndexName} ELSE {})

\* the file written with the payload, replacing what it held
save_content(fs, filename, value) == [fs EXCEPT !.files = With(@, filename, value)]

\* one line appended to the index file, created when missing
append_content(fs, filename, line) ==
    [fs EXCEPT !.index_exists = TRUE, !.index_lines = Append(@, line)]

\* the lines of the index file (none when it is missing)
load_file_lines(fs, filename) == IF fs.index_exists THEN fs.index_lines ELSE <<>>

\* the index file rewritten with the lines
save_lines(fs, filename, lines) ==
    [fs EXCEPT !.index_exists = TRUE, !.index_lines = lines]

----------------------------------------------------------------------------
(* keyvalue: the digest tree *)

\* the Exception find_node raises, as a path no directory has
InconsistentTree == <<<<"!">>>>

\* keyvalue.py:100  'FF' * 20 has 2 * NodeNameBytes hex digits
NodeNameBytes == 1

\* the upper bound of the root one short of the largest name
new_node_sup_init_short == Repeat(<<"F", "E">>, NodeNameBytes)

new_node_sup_init == Repeat(<<"F", "F">>, NodeNameBytes)
new_node_inf_init == <<"7", "F">> \o Repeat(<<"F", "F">>, NodeNameBytes - 1)

\* _divide_node with the half-width shifted once more than the level
divide_names_shifted_once_more(nodes_path) ==
    LET level == Len(nodes_path)
        new_node_sup == IF level > 0 THEN nodes_path[Len(nodes_path)] ELSE new_node_sup_init
        new_node_diff == ShiftRight(IntHex(new_node_sup_init) - IntHex(new_node_inf_init),
                                    level + 1)
        new_node_inf == IF level > 0
                        THEN FormatX(IntHex(new_node_sup) - new_node_diff, 2 * NodeNameBytes)
                        ELSE new_node_inf_init
    IN  <<Lower(new_node_inf), Lower(new_node_sup)>>

\* the names of the two children of the node at nodes_path: <<inf, sup>>
divide_names(nodes_path) ==
    LET level == Len(nodes_path)
        new_node_sup == IF level > 0 THEN nodes_path[Len(nodes_path)] ELSE new_node_sup_init
        new_node_diff == ShiftRight(IntHex(new_node_sup_init) - IntHex(new_node_inf_init), level)
        new_node_inf == IF level > 0
                        THEN FormatX(IntHex(new_node_sup) - new_node_diff, 2 * NodeNameBytes)
                        ELSE new_node_inf_init
    IN  <<Lower(new_node_inf), Lower(new_node_sup)>>

\* _divide_node: the paths of the two children, <<new_path_1, new_path_2>>
divide_node(path, nodes_path) ==
    LET names == divide_names(nodes_path)
    IN  <<create_new_filepath(path, nodes_path, names[1]),
          create_new_filepath(path, nodes_path, names[2])>>

\* the content files of a node: everything but the index
content_files(fs, current_path) == gen_files_under(fs, current_path) \ {IndexName}

\* _generator_count(itertools.islice(files_node, limit))
islice_count(names, limit) ==
    IF Cardinality(names) < limit THEN Cardinality(names) ELSE limit

rebalancing_required(fs, current_path, max_files) ==
    islice_count(content_files(fs, current_path), max_files + 1) > max_files

\* where the split moves the file: new_path_1 when file_path <= new_path_1
split_target(file_path, new_path_1, new_path_2) ==
    IF StrLeq(PathStr(file_path), PathStr(new_path_1)) THEN new_path_1 ELSE new_path_2

\* the moves of the split, one file after the other
RECURSIVE move_files(_, _, _, _, _)
move_files(fs, current_path, names, new_path_1, new_path_2) ==
    IF names = {} THEN fs
    ELSE LET filename == CHOOSE n \in names : TRUE
             file_path == build_file_path(current_path, filename)
             target == split_target(file_path, new_path_1, new_path_2)
         IN  move_files(rename_path(fs, file_path, build_file_path(target, filename)),
                        current_path, names \ {filename}, new_path_1, new_path_2)

\* the locked block of rebalance_cache_tree: both children made, every file moved
split_node(fs, path, nodes_path) ==
    LET current_path == merge_directory_paths(path, nodes_path)
        new_paths == divide_node(path, nodes_path)
        made == create_path_if_not_exists(
                    create_path_if_not_exists(fs, new_paths[1]), new_paths[2])
    IN  move_files(made, current_path, content_files(made, current_path),
                   new_paths[1], new_paths[2])

\* rebalance_cache_tree without the descent into the child directories
rebalance_cache_tree_no_descent(fs, path, nodes_path, max_files) ==
    IF rebalancing_required(fs, merge_directory_paths(path, nodes_path), max_files)
    THEN split_node(fs, path, nodes_path)
    ELSE fs

RECURSIVE rebalance_cache_tree(_, _, _, _), rebalance_each(_, _, _, _, _)
\* one pass over the subtree at nodes_path: split when over the cap, then descend
rebalance_cache_tree(fs, path, nodes_path, max_files) ==
    LET current_path == merge_directory_paths(path, nodes_path)
        after == IF rebalancing_required(fs, current_path, max_files)
                 THEN split_node(fs, path, nodes_path)
                 ELSE fs
    IN  rebalance_each(after, path, nodes_path,
                       gen_directories_under(after, current_path), max_files)

rebalance_each(fs, path, nodes_path, directories, max_files) ==
    IF directories = <<>> THEN fs
    ELSE rebalance_each(
             rebalance_cache_tree(fs, path, Append(nodes_path, Head(directories)), max_files),
             path, nodes_path, Tail(directories), max_files)

RECURSIVE find_node_no_break(_, _, _)
\* find_node without the break of its loop: the last child that fits is taken
find_node_no_break(fs, digest, path) ==
    LET directories == gen_directories_under(fs, path)
        fits == {i \in 1..Len(directories) : StrLeq(digest, directories[i])}
    IN  IF directories = <<>> THEN path
        ELSE IF fits = {} THEN InconsistentTree
        ELSE find_node_no_break(fs, digest,
                 build_directory_path(path, directories[CHOOSE i \in fits : \A j \in fits : i >= j]))

RECURSIVE find_node(_, _, _), find_node_among(_, _, _, _)
\* the leaf the digest is routed to, or InconsistentTree
find_node(fs, digest, path) ==
    find_node_among(fs, digest, path, gen_directories_under(fs, path))

\* find_node once the directories are listed: the first that fits is descended into
find_node_among(fs, digest, path, directories) ==
    IF directories = <<>> THEN path
    ELSE IF \A i \in 1..Len(directories) : ~StrLeq(digest, directories[i])
    THEN InconsistentTree
    ELSE find_node(fs, digest,
             build_directory_path(path,
                 directories[CHOOSE i \in 1..Len(directories) :
                                 /\ StrLeq(digest, directories[i])
                                 /\ \A j \in 1..(i - 1) : ~StrLeq(digest, directories[j])]))

\* the digest of a key
key_digest(key) == Md5Hex(Repr(key))

\* osaccess.build_file_path(target_node, digest), find_node having returned
file_in_node(target_node, digest) ==
    IF target_node = InconsistentTree THEN InconsistentTree
    ELSE build_file_path(target_node, digest)

\* the path of the content file of a key, or InconsistentTree
get_store_id(fs, root, key) == file_in_node(find_node(fs, key_digest(key), root), key_digest(key))

has_store_key(fs, root, key) == exists_path(fs, get_store_id(fs, root, key))

----------------------------------------------------------------------------
(* keyvalue: the index *)

\* datetime.today().strftime('%Y%m%d'): the calendar day, the time of day dropped
strftime(t) == <<HexUpper[(t \div TicksPerDay) + 1]>>

\* whether datetime.strptime(text, '%Y%m%d') parses
is_date(text) == Len(text) = 1 /\ \E j \in 1..10 : HexUpper[j] = text[1]

\* datetime.strptime(text, '%Y%m%d'): midnight of the day
strptime(text) == HexDigit(text[1]) * TicksPerDay

\* as_of_date - timedelta(days=days)
minus_days(as_of_date, days) == as_of_date - days * TicksPerDay

\* '%s %s: "%s"\n' % (today, filename_digest, key)
index_entry(today, filename_digest, key) ==
    today \o <<" ">> \o filename_digest \o <<":", " ", "\"">> \o Str(key) \o <<"\"", "\n">>

\* gather_expired_keys over the lines: the keys collected and how the scan ended
RECURSIVE process_file_by_line(_, _, _)
process_file_by_line(lines, expiry_date, expired_keys) ==
    LET \* yyyymmdd, key_md5, key_commas = line.strip().split(' ')
        gather_expired_keys(tokens) ==
            IF Len(tokens) # 3 \/ ~is_date(tokens[1])
            THEN [out |-> "ValueError", keys |-> expired_keys]
            ELSE process_file_by_line(Tail(lines), expiry_date,
                     IF expiry_date > strptime(tokens[1])
                     THEN Append(expired_keys, StrKey(Slice1m1(tokens[3])))
                     ELSE expired_keys)
        each(stripped) ==
            IF Len(stripped) = 0
            THEN process_file_by_line(Tail(lines), expiry_date, expired_keys)
            ELSE gather_expired_keys(Split(stripped, " "))
    IN  IF lines = <<>> THEN [out |-> "ok", keys |-> expired_keys]
        ELSE each(Strip(Head(lines)))

\* the lines that do not name the digest
other_lines(lines, filename_digest) ==
    SelectSeq(lines, LAMBDA line : Split(line, " ")[2] # filename_digest \o <<":">>)

RECURSIVE remove_each_lines_only(_, _, _, _)
\* the loop of _remove_from_cache_multiple without osaccess.remove_file
remove_each_lines_only(fs, root, keys, lines) ==
    IF keys = <<>> THEN [out |-> "ok", fs |-> fs, lines |-> lines]
    ELSE LET filename == get_store_id(fs, root, Head(keys))
             filename_digest == get_file_from_filepath(filename)
         IN  IF filename = InconsistentTree
             THEN [out |-> "InconsistentTree", fs |-> fs, lines |-> lines]
             ELSE remove_each_lines_only(fs, root, Tail(keys),
                                         other_lines(lines, filename_digest))

\* the loop of _remove_from_cache_multiple: each key's file removed, its lines dropped
RECURSIVE remove_each(_, _, _, _)
remove_each(fs, root, keys, lines) ==
    LET remove(filename) ==
            IF filename = InconsistentTree
            THEN [out |-> "InconsistentTree", fs |-> fs, lines |-> lines]
            ELSE remove_each(remove_file(fs, filename), root, Tail(keys),
                             other_lines(lines, get_file_from_filepath(filename)))
    IN  IF keys = <<>> THEN [out |-> "ok", fs |-> fs, lines |-> lines]
        ELSE remove(get_store_id(fs, root, Head(keys)))

\* _remove_from_cache_multiple: [out, fs]
remove_from_cache_multiple(fs, root, keys) ==
    LET save(done) ==
            IF done.out = "ok"
            THEN [out |-> "ok", fs |-> save_lines(done.fs, IndexPath(root), done.lines)]
            ELSE [out |-> done.out, fs |-> done.fs]
    IN  save(remove_each(fs, root, keys, load_file_lines(fs, IndexPath(root))))

\* invalidate_expired_entries: [out, fs, keys], keys being the expired keys it removed
invalidate_expired_entries(fs, root, as_of_date, days) ==
    LET removed(done, expired_keys) ==
            [out |-> done.out, fs |-> done.fs, keys |-> expired_keys]
        scanned(scan) ==
            IF scan.out # "ok" THEN [out |-> scan.out, fs |-> fs, keys |-> <<>>]
            ELSE removed(remove_from_cache_multiple(fs, root, scan.keys), scan.keys)
    IN  IF root = None THEN [out |-> "TypeError", fs |-> fs, keys |-> <<>>]
        ELSE IF ~exists_path(fs, IndexPath(root))
        THEN [out |-> "ok", fs |-> fs, keys |-> <<>>]
        ELSE scanned(process_file_by_line(fs.index_lines,
                                          minus_days(as_of_date, days), <<>>))

\* the locked block of _add_to_cache writing the content file at the root
\* of the store whatever the tree of nodes is
add_locked_at_root(fs, root, key, value, t) ==
    LET filename == build_file_path(root, key_digest(key))
        filename_digest == get_file_from_filepath(filename)
    IN  [out |-> "ok",
         fs |-> append_content(save_content(fs, filename, value), IndexPath(root),
                               index_entry(strftime(t), filename_digest, key))]

\* the locked block of _add_to_cache not writing the content of a key that
\* is present already
add_locked_keeps_content(fs, root, key, value, t) ==
    LET filename == get_store_id(fs, root, key)
        filename_digest == get_file_from_filepath(filename)
    IN  IF filename = InconsistentTree THEN [out |-> "InconsistentTree", fs |-> fs]
        ELSE [out |-> "ok",
              fs |-> append_content(
                         IF exists_path(fs, filename) THEN fs
                         ELSE save_content(fs, filename, value),
                         IndexPath(root), index_entry(strftime(t), filename_digest, key))]

\* the locked block of _add_to_cache: [out, fs]
add_locked(fs, root, key, value, t) ==
    LET write(filename) ==
            IF filename = InconsistentTree THEN [out |-> "InconsistentTree", fs |-> fs]
            ELSE [out |-> "ok",
                  fs |-> append_content(
                             save_content(fs, filename, value), IndexPath(root),
                             index_entry(strftime(t), get_file_from_filepath(filename), key))]
    IN  write(get_store_id(fs, root, key))

\* _add_to_cache: the locked block, then the rebalance pass when the index size says so
add_to_cache(fs, root, key, value, t, limit, max_files) ==
    LET check_size(added) ==
            IF added.out # "ok" THEN added
            ELSE IF file_size(added.fs, IndexPath(root)) % limit = 0
            THEN [out |-> "ok", fs |-> rebalance_cache_tree(added.fs, root, <<>>, max_files)]
            ELSE added
    IN  check_size(add_locked(fs, root, key, value, t))

\* _get_from_cache: [out, val]
get_from_cache(fs, root, key) ==
    LET load_file_content(filename) ==
            IF filename = InconsistentTree THEN [out |-> "InconsistentTree", val |-> NoValue]
            ELSE IF filename \notin DOMAIN fs.files
            THEN [out |-> "FileNotFoundError", val |-> NoValue]
            ELSE [out |-> "ok", val |-> fs.files[filename]]
    IN  load_file_content(get_store_id(fs, root, key))

\* the loop of empty_store: every node under the root removed
RECURSIVE remove_nodes(_, _, _)
remove_nodes(fs, root, nodes) ==
    IF nodes = {} THEN fs
    ELSE LET node == CHOOSE n \in nodes : TRUE
         IN  remove_nodes(remove_all_under_path(fs, build_file_path(root, node)),
                          root, nodes \ {node})

\* empty_store on a configured store
empty_store(fs, root) ==
    remove_file_if_exists(remove_nodes(fs, root, get_files_under_path(fs, root)),
                          IndexPath(root))

\* what the producer of read_cached does: returns a value, or raises
ProducerRaises == "raise"
ProducerOutcomes == Values \cup {ProducerRaises}
\* what the producers of the callers do
Producers == {"v1", ProducerRaises}

\* read_cached without the test of has_store_key: the producer is called and its
\* result stored whether the key is present or not
read_cached_always_calls(fs, root, key, produced, t, limit, max_files) ==
    IF root = None \/ produced = ProducerRaises
    THEN [out |-> IF produced = ProducerRaises THEN "ProducerError" ELSE "ok",
          val |-> IF produced = ProducerRaises THEN NoValue ELSE produced,
          fs |-> fs, called |-> TRUE, added |-> FALSE]
    ELSE LET added == add_to_cache(fs, root, key, produced, t, limit, max_files)
             got == get_from_cache(added.fs, root, key)
         IN  [out |-> IF added.out # "ok" THEN added.out
                      ELSE IF got.out = "ok" THEN "miss" ELSE got.out,
              val |-> got.val, fs |-> added.fs, called |-> TRUE,
              added |-> added.out = "ok"]

\* read_cached(read_func, key), read_func returning (or raising) `produced`:
\* [out, val, fs, called, added]
read_cached(fs, root, key, produced, t, limit, max_files) ==
    LET straight ==
            [out |-> IF produced = ProducerRaises THEN "ProducerError" ELSE "ok",
             val |-> IF produced = ProducerRaises THEN NoValue ELSE produced,
             fs |-> fs, called |-> TRUE, added |-> FALSE]
        \* content = _get_from_cache(key), the store being after
        answer(got, after, how, called, added) ==
            [out |-> IF got.out = "ok" THEN how ELSE got.out, val |-> got.val,
             fs |-> after, called |-> called, added |-> added]
        \* _add_to_cache(key, content) has returned
        stored(added) ==
            IF added.out # "ok"
            THEN [out |-> added.out, val |-> NoValue, fs |-> added.fs, called |-> TRUE,
                  added |-> FALSE]
            ELSE answer(get_from_cache(added.fs, root, key), added.fs, "miss", TRUE, TRUE)
        \* has_store_key(key) has returned
        looked_up(filename) ==
            IF filename = InconsistentTree
            THEN [out |-> "InconsistentTree", val |-> NoValue, fs |-> fs,
                  called |-> FALSE, added |-> FALSE]
            ELSE IF exists_path(fs, filename)
            THEN answer(get_from_cache(fs, root, key), fs, "hit", FALSE, FALSE)
            ELSE IF produced = ProducerRaises
            THEN [out |-> "ProducerError", val |-> NoValue, fs |-> fs, called |-> TRUE,
                  added |-> FALSE]
            ELSE stored(add_to_cache(fs, root, key, produced, t, limit, max_files))
    IN  IF root = None THEN straight ELSE looked_up(get_store_id(fs, root, key))

----------------------------------------------------------------------------
(* keyvalue: enumeration and retrieval *)

\* the digest an index line names
line_digest(line) == LET token == Split(line, " ")[2] IN SubSeq(token, 1, Len(token) - 1)

\* the date an index line carries
line_date(line) == strptime(Split(line, " ")[1])

\* the original key string of an index line: what stands between the quotes
line_key(line) ==
    LET tokens == Split(Strip(line), " ")
    IN  Slice1m1(Join(<<" ">>, SubSeq(tokens, 3, Len(tokens))))

\* the positions of the lines kept: per digest the newest dated line, the last of equals
authoritative(lines) ==
    {i \in 1..Len(lines) :
        \A j \in 1..Len(lines) :
            (j # i /\ line_digest(lines[j]) = line_digest(lines[i]))
            => \/ line_date(lines[j]) < line_date(lines[i])
               \/ line_date(lines[j]) = line_date(lines[i]) /\ j < i}

\* the texts at the positions, in string order, one per position
RECURSIVE sorted_texts(_, _)
sorted_texts(texts, positions) ==
    IF positions = {} THEN <<>>
    ELSE LET least == CHOOSE i \in positions : \A j \in positions : StrLeq(texts[i], texts[j])
         IN  <<texts[least]>> \o sorted_texts(texts, positions \ {least})

\* list_keys: the sorted original keys of the authoritative index lines
list_keys(fs) ==
    LET lines == load_file_lines(fs, IndexPath(StoreRoot))
    IN  sorted_texts([i \in 1..Len(lines) |-> line_key(lines[i])], authoritative(lines))

\* retrieve_from_store: [out, val]; the content file when present
retrieve_from_store(fs, root, key, fail_on_missing) ==
    IF root = None \/ ~has_store_key(fs, root, key)
    THEN [out |-> IF fail_on_missing THEN "NotFound" ELSE "ok", val |-> NoValue]
    ELSE [out |-> "ok", val |-> fs.files[get_store_id(fs, root, key)]]

----------------------------------------------------------------------------
(* The state machine: one action per call of the public API *)

is_cache_used == CACHE_FILE_PATH # None

\* keyvalue.py:15
DEFAULT_MAX_NODE_FILES == 256
\* keyvalue.py:16
DEFAULT_REBALANCING_LIMIT == 512

\* the arguments the callers pass to set_store_path (NoneInt: left out)
MaxNodeFilesArgs == {1, 2}
RebalancingLimitArgs == {2}
ExpiryDaysArgs == {1}
\* the as_of_date arguments of invalidate_expired_entries (NoneInt: left out)
AsOfDates == {NoneInt, TicksPerDay + 1, 2 * TicksPerDay}

WriteDisk(fs) ==
    /\ dirs' = fs.dirs
    /\ files' = fs.files
    /\ index_exists' = fs.index_exists
    /\ index_lines' = fs.index_lines

\* expect after a sweep that reached the removal of the keys: their texts are forgotten
expect_after_sweep(keys) ==
    [k \in Keys |-> IF \E i \in 1..Len(keys) : Str(keys[i]) = Str(k) THEN NoValue ELSE expect[k]]

\* live[k] of a key that was never added, or was removed or reset since its last add
Gone == -1
\* live[k] of a key whose last add is older than the cutoff of a sweep made since
Expired == -2

\* live after a sweep: the keys last added before the cutoff are expired
live_after_sweep(as_of_date, days) ==
    [k \in Keys |->
        IF live[k] >= 0 /\ minus_days(as_of_date, days) > live[k]
        THEN Expired ELSE live[k]]

\* datetime.today() when the module is loaded: day 0, past midnight
StartOfRun == 1

\* the threads of the callers
Threads == {"t1", "t2"}
\* the owner of __rebalancing when no thread holds it
NoThread == "none"
\* the calls one thread makes
MaxCalls == 1

\* the key of a call that takes none
NoKey == [type |-> "none", text |-> <<>>]
\* the keys the threads use: 'a' and 5, on either side of the first split
ThreadKeys == {KeyA, KeyI5}
\* the value a thread adds, and the value its producer returns
ThreadValue(t) == IF t = "t1" THEN "v1" ELSE "v2"

\* the local variables of a thread without a call
NoLocals ==
    [value |-> NoValue, filename |-> None, stack |-> <<>>, todo |-> {}, lines |-> <<>>]

\* a thread that has made no call yet
NotStarted ==
    [pc |-> "idle", op |-> "none", key |-> NoKey, calls |-> 0, locals |-> NoLocals,
     result |-> "none", content |-> NoValue, wrote |-> FALSE,
     own_lines |-> NoneInt, rebalanced |-> "unset"]

Init ==
    /\ CACHE_FILE_PATH = None
    /\ EXPIRY_DAYS = NoneInt
    /\ MAX_NODE_FILES = DEFAULT_MAX_NODE_FILES
    /\ REBALANCING_LIMIT = DEFAULT_REBALANCING_LIMIT
    /\ now = StartOfRun
    /\ dirs = {}
    /\ files = NoFiles
    /\ index_exists = FALSE
    /\ index_lines = <<>>
    /\ outcome = "ok"
    /\ expect = [k \in Keys |-> NoValue]
    /\ live = [k \in Keys |-> Gone]
    /\ lock = NoThread
    /\ threads = [t \in Threads |-> NotStarted]

\* the clock advances
Tick ==
    /\ now < MaxNow
    /\ now' = now + 1
    /\ UNCHANGED <<config, disk, outcome, expect, live, workers>>

\* the directory and the sweep of set_store_path: the root is created if it is
\* missing and the entries older than expiry_days at the present time are removed
set_store_path(fs, store_path, today, days) ==
    invalidate_expired_entries(create_path_if_not_exists(fs, Abspath(store_path)),
                               Abspath(store_path), today, days)

\* set_store_path(store_path, max_node_files, rebalancing_limit, expiry_days)
SetStorePath(store_path, max_files, limit, days) ==
    \E root \in {Abspath(store_path)} :
    \E swept \in {set_store_path(Disk, store_path, now, days)} :
        /\ EXPIRY_DAYS' = days
        /\ MAX_NODE_FILES' = IF max_files # NoneInt THEN max_files ELSE MAX_NODE_FILES
        /\ REBALANCING_LIMIT' = IF limit # NoneInt THEN limit ELSE REBALANCING_LIMIT
        /\ CACHE_FILE_PATH' = root
        /\ WriteDisk(swept.fs)
        /\ outcome' = swept.out
        /\ expect' = expect_after_sweep(swept.keys)
        /\ live' = live_after_sweep(now, days)
        /\ UNCHANGED <<now, workers>>

\* invalidate_expired_entries(as_of_date)
InvalidateExpired(as_of_arg) ==
    \E as_of_date \in {IF as_of_arg = NoneInt THEN now ELSE as_of_arg} :
    \E swept \in {invalidate_expired_entries(Disk, CACHE_FILE_PATH, as_of_date, EXPIRY_DAYS)} :
        /\ WriteDisk(swept.fs)
        /\ outcome' = swept.out
        /\ expect' = expect_after_sweep(swept.keys)
        /\ live' = live_after_sweep(as_of_date, EXPIRY_DAYS)
        /\ UNCHANGED <<config, now, workers>>

\* add_to_store(key, value)
AddToStore(key, value) ==
    /\ Len(index_lines) < MaxIndexLen
    /\ IF is_cache_used
       THEN \E added \in {add_to_cache(Disk, CACHE_FILE_PATH, key, value, now,
                                       REBALANCING_LIMIT, MAX_NODE_FILES)} :
                /\ WriteDisk(added.fs)
                /\ outcome' = added.out
                /\ expect' = IF added.out = "ok" THEN [expect EXCEPT ![key] = value] ELSE expect
                /\ live' = IF added.out = "ok"
                           THEN [live EXCEPT ![key] = strptime(strftime(now))] ELSE live
       ELSE /\ outcome' = "ok"
            /\ UNCHANGED <<disk, expect, live>>
    /\ UNCHANGED <<config, now, workers>>

\* retrieve_from_store(key, fail_on_missing)
RetrieveFromStore(key, fail_on_missing) ==
    /\ outcome' = retrieve_from_store(Disk, CACHE_FILE_PATH, key, fail_on_missing).out
    /\ UNCHANGED <<config, now, disk, expect, live, workers>>

\* has_store_key(key)
HasStoreKey(key) ==
    /\ outcome' = IF ~is_cache_used THEN "TypeError"
                  ELSE IF get_store_id(Disk, CACHE_FILE_PATH, key) = InconsistentTree
                  THEN "InconsistentTree"
                  ELSE "ok"
    /\ UNCHANGED <<config, now, disk, expect, live, workers>>

\* remove_store_key(key)
RemoveStoreKey(key) ==
    /\ IF is_cache_used
       THEN \E done \in {remove_from_cache_multiple(Disk, CACHE_FILE_PATH, <<key>>)} :
                /\ WriteDisk(done.fs)
                /\ outcome' = done.out
       ELSE /\ outcome' = "ok"
            /\ UNCHANGED disk
    /\ expect' = [expect EXCEPT ![key] = NoValue]
    /\ live' = [live EXCEPT ![key] = Gone]
    /\ UNCHANGED <<config, now, workers>>

\* rebalance_store()
RebalanceStore ==
    /\ IF is_cache_used
       THEN \E done \in {rebalance_cache_tree(Disk, CACHE_FILE_PATH, <<>>, MAX_NODE_FILES)} :
                WriteDisk(done)
       ELSE UNCHANGED disk
    /\ outcome' = "ok"
    /\ UNCHANGED <<config, now, expect, live, workers>>

\* empty_store()
EmptyStore ==
    /\ IF is_cache_used
       THEN \E done \in {empty_store(Disk, CACHE_FILE_PATH)} : WriteDisk(done)
       ELSE UNCHANGED disk
    /\ outcome' = "ok"
    /\ expect' = IF is_cache_used THEN [k \in Keys |-> NoValue] ELSE expect
    /\ live' = IF is_cache_used THEN [k \in Keys |-> Gone] ELSE live
    /\ UNCHANGED <<config, now, workers>>

\* read_cached(read_func, key)
ReadCached(key, produced) ==
    \E read \in {read_cached(Disk, CACHE_FILE_PATH, key, produced, now,
                             REBALANCING_LIMIT, MAX_NODE_FILES)} :
        /\ read.added => Len(index_lines) < MaxIndexLen
        /\ WriteDisk(read.fs)
        /\ outcome' = read.out
        /\ expect' = IF read.added THEN [expect EXCEPT ![key] = produced] ELSE expect
        /\ live' = IF read.added
                   THEN [live EXCEPT ![key] = strptime(strftime(now))] ELSE live
        /\ UNCHANGED <<config, now, workers>>

Next ==
    \/ Tick
    \/ \E store_path \in StorePaths, max_files \in MaxNodeFilesArgs,
          limit \in RebalancingLimitArgs, days \in ExpiryDaysArgs :
            SetStorePath(store_path, max_files, limit, days)
    \/ \E as_of_arg \in AsOfDates : InvalidateExpired(as_of_arg)
    \/ \E key \in Keys, value \in Values : AddToStore(key, value)
    \/ \E key \in Keys, fail_on_missing \in BOOLEAN : RetrieveFromStore(key, fail_on_missing)
    \/ \E key \in Keys : HasStoreKey(key)
    \/ \E key \in Keys : RemoveStoreKey(key)
    \/ RebalanceStore
    \/ EmptyStore
    \/ \E key \in Keys, produced \in Producers : ReadCached(key, produced)

Spec == Init /\ [][Next]_vars

----------------------------------------------------------------------------
(* The calls of the threads, one step per acquisition of the lock and per   *)
(* access to the file system                                                *)

\* the calls that take a key, and those that take none
KeyCalls == {"add_to_store", "read_cached", "remove_store_key"}
StoreCalls == {"rebalance_store", "empty_store"}

\* where a call starts
FirstStep(op) ==
    CASE op = "add_to_store" -> "acquire_add"
      [] op = "read_cached" -> "has_store_key"
      [] op = "remove_store_key" -> "acquire_remove"
      [] op = "rebalance_store" -> "rebalancing_required"
      [] op = "empty_store" -> "get_files_under_path"

\* the thread after its step
Becomes(t, th) == threads' = [threads EXCEPT ![t] = th]

\* the call returns, or raises when result is not "ok"
Returned(th, result, content) ==
    [th EXCEPT !.pc = "idle", !.result = result, !.content = content, !.locals = NoLocals]

\* the step of a thread that leaves the file system and the lock alone
Unlocked(t, th) == Becomes(t, th) /\ UNCHANGED <<disk, lock>>

\* what the threads never touch
Ambient == <<config, now, outcome, expect, live>>

\* the thread is at the step
At(t, step) == threads[t].pc = step

\* a thread calls the public API
Call(t, op, key) ==
    /\ At(t, "idle")
    /\ threads[t].calls < MaxCalls
    /\ Unlocked(t, [NotStarted EXCEPT
                        !.pc = FirstStep(op), !.op = op, !.key = key,
                        !.calls = threads[t].calls + 1,
                        !.locals = [NoLocals EXCEPT
                            !.value = IF op = "add_to_store" THEN ThreadValue(t) ELSE NoValue,
                            !.stack = IF op = "rebalance_store" THEN <<<<>>>> ELSE <<>>]])
    /\ UNCHANGED Ambient

\* read_cached taking the lock before has_store_key(key) and keeping it
\* over the call of the producer
HasStoreKeyStep_locked(t) ==
    /\ At(t, "has_store_key")
    /\ lock = NoThread
    /\ \E filename \in {get_store_id(Disk, CACHE_FILE_PATH, threads[t].key)} :
          IF filename # InconsistentTree /\ ~exists_path(Disk, filename)
          THEN /\ Becomes(t, [threads[t] EXCEPT !.pc = "read_func"])
               /\ lock' = t
          ELSE /\ Becomes(t, IF filename = InconsistentTree
                             THEN Returned(threads[t], "InconsistentTree", NoValue)
                             ELSE [threads[t] EXCEPT !.pc = "get_from_cache"])
               /\ UNCHANGED lock
    /\ UNCHANGED <<disk, Ambient>>

\* read_cached: has_store_key(key), without the lock
HasStoreKeyStep(t) ==
    /\ At(t, "has_store_key")
    /\ \E filename \in {get_store_id(Disk, CACHE_FILE_PATH, threads[t].key)} :
          Unlocked(t, IF filename = InconsistentTree
                      THEN Returned(threads[t], "InconsistentTree", NoValue)
                      ELSE IF exists_path(Disk, filename)
                      THEN [threads[t] EXCEPT !.pc = "get_from_cache"]
                      ELSE [threads[t] EXCEPT !.pc = "read_func"])
    /\ UNCHANGED Ambient

\* read_cached storing what it has when the producer raises, before the error
\* reaches the caller
ReadFunc_stores_failure(t, produced) ==
    /\ At(t, "read_func")
    /\ produced \in {ThreadValue(t), ProducerRaises}
    /\ IF produced = ProducerRaises
       THEN /\ WriteDisk(save_content(Disk, build_file_path(CACHE_FILE_PATH,
                                                            key_digest(threads[t].key)),
                                      NoValue))
            /\ Becomes(t, Returned(threads[t], "ProducerError", NoValue))
       ELSE /\ Becomes(t, [threads[t] EXCEPT !.pc = "acquire_add", !.locals.value = produced])
            /\ UNCHANGED disk
    /\ UNCHANGED <<lock, Ambient>>

\* read_cached: content = read_func(key)
ReadFunc(t, produced) ==
    /\ At(t, "read_func")
    /\ produced \in {ThreadValue(t), ProducerRaises}
    /\ Unlocked(t, IF produced = ProducerRaises
                   THEN Returned(threads[t], "ProducerError", NoValue)
                   ELSE [threads[t] EXCEPT !.pc = "acquire_add", !.locals.value = produced])
    /\ UNCHANGED Ambient

\* _add_to_cache: __rebalancing.acquire() and filename = get_store_id(key)
AcquireAdd(t) ==
    /\ At(t, "acquire_add")
    /\ lock = NoThread
    /\ \E filename \in {get_store_id(Disk, CACHE_FILE_PATH, threads[t].key)} :
          IF filename = InconsistentTree
          THEN /\ Becomes(t, Returned(threads[t], "InconsistentTree", NoValue))
               /\ UNCHANGED lock
          ELSE /\ Becomes(t, [threads[t] EXCEPT !.pc = "save_content",
                                                !.locals.filename = filename])
               /\ lock' = t
    /\ UNCHANGED <<disk, Ambient>>

\* _add_to_cache: osaccess.save_content(filename, value)
SaveContent(t) ==
    /\ At(t, "save_content")
    /\ IF IsDir(Disk, Dirname(threads[t].locals.filename))
       THEN /\ WriteDisk(save_content(Disk, threads[t].locals.filename,
                                      threads[t].locals.value))
            /\ Becomes(t, [threads[t] EXCEPT !.pc = "append_content", !.wrote = TRUE])
            /\ UNCHANGED lock
       ELSE /\ Becomes(t, Returned(threads[t], "FileNotFoundError", NoValue))
            /\ lock' = NoThread
            /\ UNCHANGED disk
    /\ UNCHANGED Ambient

\* _add_to_cache: osaccess.append_content(index_name, index_entry) and the
\* release of the lock
AppendContent(t) ==
    /\ At(t, "append_content")
    /\ WriteDisk(append_content(Disk, IndexPath(CACHE_FILE_PATH),
                                index_entry(strftime(now),
                                            get_file_from_filepath(threads[t].locals.filename),
                                            threads[t].key)))
    /\ Becomes(t, [threads[t] EXCEPT !.pc = "file_size",
                                     !.own_lines = Len(index_lines) + 1])
    /\ lock' = NoThread
    /\ UNCHANGED Ambient

\* the call goes on after _add_to_cache or ends
AfterAdd(th) ==
    IF th.op = "read_cached" THEN [th EXCEPT !.pc = "get_from_cache", !.locals = NoLocals]
    ELSE Returned(th, "ok", NoValue)

\* _add_to_cache: if osaccess.file_size(index_name) % __REBALANCING_LIMIT == 0
FileSize(t) ==
    /\ At(t, "file_size")
    /\ Unlocked(t, IF ~index_exists
                   THEN Returned(threads[t], "FileNotFoundError", NoValue)
                   ELSE IF file_size(Disk, IndexPath(CACHE_FILE_PATH)) % REBALANCING_LIMIT = 0
                   THEN [threads[t] EXCEPT !.pc = "rebalancing_required",
                                           !.rebalanced = "yes",
                                           !.locals.stack = <<<<>>>>]
                   ELSE AfterAdd([threads[t] EXCEPT !.rebalanced = "no"]))
    /\ UNCHANGED Ambient

\* the node rebalance_cache_tree is called on
CurrentPath(t) == merge_directory_paths(CACHE_FILE_PATH, Head(threads[t].locals.stack))
\* the children _divide_node names for it
NewPaths(t) == divide_node(CACHE_FILE_PATH, Head(threads[t].locals.stack))

\* rebalance_cache_tree: the count of the files of the node, without the lock
RebalancingRequired(t) ==
    /\ At(t, "rebalancing_required")
    /\ Unlocked(t, IF ~IsDir(Disk, CurrentPath(t))
                   THEN Returned(threads[t], "FileNotFoundError", NoValue)
                   ELSE IF rebalancing_required(Disk, CurrentPath(t), MAX_NODE_FILES)
                   THEN [threads[t] EXCEPT !.pc = "acquire_rebalancing"]
                   ELSE [threads[t] EXCEPT !.pc = "gen_directories_under"])
    /\ UNCHANGED Ambient

\* rebalance_cache_tree: with __rebalancing
AcquireRebalancing(t) ==
    /\ At(t, "acquire_rebalancing")
    /\ lock = NoThread
    /\ lock' = t
    /\ Becomes(t, [threads[t] EXCEPT !.pc = "create_path_1"])
    /\ UNCHANGED <<disk, Ambient>>

\* rebalance_cache_tree: osaccess.create_path_if_not_exists(new_path_1)
CreatePath1(t) ==
    /\ At(t, "create_path_1")
    /\ \E made \in {create_path_if_not_exists(Disk, NewPaths(t)[1])} : WriteDisk(made)
    /\ Becomes(t, [threads[t] EXCEPT !.pc = "create_path_2"])
    /\ UNCHANGED <<lock, Ambient>>

\* rebalance_cache_tree: osaccess.create_path_if_not_exists(new_path_2)
CreatePath2(t) ==
    /\ At(t, "create_path_2")
    /\ \E made \in {create_path_if_not_exists(Disk, NewPaths(t)[2])} : WriteDisk(made)
    /\ Becomes(t, [threads[t] EXCEPT !.pc = "gen_files_under"])
    /\ UNCHANGED <<lock, Ambient>>

\* rebalance_cache_tree: the files of the node the loop of the split goes over
GenFilesUnder(t) ==
    /\ At(t, "gen_files_under")
    /\ IF IsDir(Disk, CurrentPath(t))
       THEN /\ Becomes(t, [threads[t] EXCEPT
                              !.pc = "rename_path",
                              !.locals.todo = content_files(Disk, CurrentPath(t))])
            /\ UNCHANGED lock
       ELSE /\ Becomes(t, Returned(threads[t], "FileNotFoundError", NoValue))
            /\ lock' = NoThread
    /\ UNCHANGED <<disk, Ambient>>

\* rebalance_cache_tree: osaccess.rename_path of one file of the node, in the
\* order os.listdir gave
RenamePath(t, filename) ==
    /\ At(t, "rename_path")
    /\ filename \in threads[t].locals.todo
    /\ \E file_path \in {build_file_path(CurrentPath(t), filename)}, new_paths \in {NewPaths(t)} :
       \E target \in {split_target(file_path, new_paths[1], new_paths[2])} :
          IF file_path \in DOMAIN files /\ IsDir(Disk, target)
          THEN /\ \E moved \in {rename_path(Disk, file_path,
                                              build_file_path(target, filename))} :
                      WriteDisk(moved)
               /\ Becomes(t, [threads[t] EXCEPT !.locals.todo = @ \ {filename}])
               /\ UNCHANGED lock
          ELSE /\ Becomes(t, Returned(threads[t], "FileNotFoundError", NoValue))
               /\ lock' = NoThread
               /\ UNCHANGED disk
    /\ UNCHANGED Ambient

\* rebalance_cache_tree: the end of the with block
ReleaseRebalancing(t) ==
    /\ At(t, "rename_path")
    /\ threads[t].locals.todo = {}
    /\ lock' = NoThread
    /\ Becomes(t, [threads[t] EXCEPT !.pc = "gen_directories_under"])
    /\ UNCHANGED <<disk, Ambient>>

\* the nodes_path of the children, in the order of the listing
ChildrenPaths(nodes_path, directories) ==
    [i \in 1..Len(directories) |-> Append(nodes_path, directories[i])]

\* the call goes on after rebalance_cache_tree or ends
AfterRebalance(th) ==
    IF th.op = "rebalance_store" THEN Returned(th, "ok", NoValue) ELSE AfterAdd(th)

\* rebalance_cache_tree: for directory in gen_directories_under(current_path),
\* the calls on the children made before those that are pending
GenDirectoriesUnder(t) ==
    /\ At(t, "gen_directories_under")
    /\ \E pending \in {IF IsDir(Disk, CurrentPath(t))
                        THEN ChildrenPaths(Head(threads[t].locals.stack),
                                           gen_directories_under(Disk, CurrentPath(t)))
                             \o Tail(threads[t].locals.stack)
                        ELSE None} :
          Unlocked(t, IF ~IsDir(Disk, CurrentPath(t))
                      THEN Returned(threads[t], "FileNotFoundError", NoValue)
                      ELSE IF pending = <<>>
                      THEN AfterRebalance(threads[t])
                      ELSE [threads[t] EXCEPT !.pc = "rebalancing_required",
                                              !.locals.stack = pending])
    /\ UNCHANGED Ambient

\* _get_from_cache: the content of the file of the key, read under the lock
GetFromCache(t) ==
    /\ At(t, "get_from_cache")
    /\ lock = NoThread
    /\ \E got \in {get_from_cache(Disk, CACHE_FILE_PATH, threads[t].key)} :
          Unlocked(t, Returned(threads[t], got.out, got.val))
    /\ UNCHANGED Ambient

\* _remove_from_cache_multiple: __rebalancing.acquire(), the lines of the index
\* and filename = get_store_id(key)
AcquireRemove(t) ==
    /\ At(t, "acquire_remove")
    /\ lock = NoThread
    /\ \E filename \in {get_store_id(Disk, CACHE_FILE_PATH, threads[t].key)} :
          IF filename = InconsistentTree
          THEN /\ Becomes(t, Returned(threads[t], "InconsistentTree", NoValue))
               /\ UNCHANGED lock
          ELSE /\ Becomes(t, [threads[t] EXCEPT
                                 !.pc = "remove_file",
                                 !.locals.filename = filename,
                                 !.locals.lines = load_file_lines(Disk, IndexPath(CACHE_FILE_PATH))])
               /\ lock' = t
    /\ UNCHANGED <<disk, Ambient>>

\* _remove_from_cache_multiple: osaccess.remove_file(filename)
RemoveFile(t) ==
    /\ At(t, "remove_file")
    /\ WriteDisk(remove_file(Disk, threads[t].locals.filename))
    /\ Becomes(t, [threads[t] EXCEPT !.pc = "save_lines"])
    /\ UNCHANGED <<lock, Ambient>>

\* _remove_from_cache_multiple rewriting the index and returning without the
\* release of its finally block
SaveLines_without_release(t) ==
    /\ At(t, "save_lines")
    /\ WriteDisk(save_lines(Disk, IndexPath(CACHE_FILE_PATH),
                            other_lines(threads[t].locals.lines,
                                        get_file_from_filepath(threads[t].locals.filename))))
    /\ Becomes(t, Returned(threads[t], "ok", NoValue))
    /\ UNCHANGED <<lock, Ambient>>

\* _remove_from_cache_multiple: osaccess.save_lines(index_name, lines) and the
\* release of the lock
SaveLines(t) ==
    /\ At(t, "save_lines")
    /\ WriteDisk(save_lines(Disk, IndexPath(CACHE_FILE_PATH),
                            other_lines(threads[t].locals.lines,
                                        get_file_from_filepath(threads[t].locals.filename))))
    /\ Becomes(t, Returned(threads[t], "ok", NoValue))
    /\ lock' = NoThread
    /\ UNCHANGED Ambient

\* empty_store: osaccess.get_files_under_path(root), without the lock
GetFilesUnderPath(t) ==
    /\ At(t, "get_files_under_path")
    /\ Unlocked(t, [threads[t] EXCEPT
                       !.pc = "remove_all_under_path",
                       !.locals.todo = get_files_under_path(Disk, CACHE_FILE_PATH)])
    /\ UNCHANGED Ambient

\* empty_store: osaccess.remove_all_under_path(node_path) of one node, in the
\* order os.listdir gave, without the lock
RemoveAllUnderPath(t, node) ==
    /\ At(t, "remove_all_under_path")
    /\ node \in threads[t].locals.todo
    /\ WriteDisk(remove_all_under_path(Disk, build_file_path(CACHE_FILE_PATH, node)))
    /\ Becomes(t, [threads[t] EXCEPT !.locals.todo = @ \ {node}])
    /\ UNCHANGED <<lock, Ambient>>

\* empty_store: osaccess.remove_file_if_exists(index), without the lock
RemoveIndex(t) ==
    /\ At(t, "remove_all_under_path")
    /\ threads[t].locals.todo = {}
    /\ WriteDisk(remove_file_if_exists(Disk, IndexPath(CACHE_FILE_PATH)))
    /\ Becomes(t, Returned(threads[t], "ok", NoValue))
    /\ UNCHANGED <<lock, Ambient>>

\* the stores the threads start on: configured and empty, or holding 'a'
InitialStores(root, limit, max_files) ==
    LET fresh == set_store_path([dirs |-> {}, files |-> NoFiles,
                                 index_exists |-> FALSE, index_lines |-> <<>>],
                                PathStr(root), StartOfRun, 1).fs
    IN  {fresh, add_to_cache(fresh, root, KeyA, "v1", StartOfRun, limit, max_files).fs}

\* the threads start once set_store_path has returned
InitThreads ==
    /\ CACHE_FILE_PATH = StoreRoot
    /\ EXPIRY_DAYS \in ExpiryDaysArgs
    /\ MAX_NODE_FILES = 1
    /\ REBALANCING_LIMIT \in RebalancingLimitArgs
    /\ now = StartOfRun
    /\ \E fs \in InitialStores(CACHE_FILE_PATH, REBALANCING_LIMIT, MAX_NODE_FILES) :
          /\ dirs = fs.dirs
          /\ files = fs.files
          /\ index_exists = fs.index_exists
          /\ index_lines = fs.index_lines
    /\ outcome = "ok"
    /\ expect = [k \in Keys |-> NoValue]
    /\ live = [k \in Keys |-> Gone]
    /\ lock = NoThread
    /\ threads = [t \in Threads |-> NotStarted]

\* the names the threads have listed and not handled yet
Listed == UNION {threads[t].locals.todo : t \in Threads}

NextThreads ==
    \/ \E t \in Threads, op \in KeyCalls, key \in ThreadKeys : Call(t, op, key)
    \/ \E t \in Threads, op \in StoreCalls : Call(t, op, NoKey)
    \/ \E t \in Threads : HasStoreKeyStep(t)
    \/ \E t \in Threads, produced \in ProducerOutcomes : ReadFunc(t, produced)
    \/ \E t \in Threads : AcquireAdd(t)
    \/ \E t \in Threads : SaveContent(t)
    \/ \E t \in Threads : AppendContent(t)
    \/ \E t \in Threads : FileSize(t)
    \/ \E t \in Threads : RebalancingRequired(t)
    \/ \E t \in Threads : AcquireRebalancing(t)
    \/ \E t \in Threads : CreatePath1(t)
    \/ \E t \in Threads : CreatePath2(t)
    \/ \E t \in Threads : GenFilesUnder(t)
    \/ \E t \in Threads, filename \in Listed : RenamePath(t, filename)
    \/ \E t \in Threads : ReleaseRebalancing(t)
    \/ \E t \in Threads : GenDirectoriesUnder(t)
    \/ \E t \in Threads : GetFromCache(t)
    \/ \E t \in Threads : AcquireRemove(t)
    \/ \E t \in Threads : RemoveFile(t)
    \/ \E t \in Threads : SaveLines(t)
    \/ \E t \in Threads : GetFilesUnderPath(t)
    \/ \E t \in Threads, node \in Listed : RemoveAllUnderPath(t, node)
    \/ \E t \in Threads : RemoveIndex(t)

SpecThreads == InitThreads /\ [][NextThreads]_vars

----------------------------------------------------------------------------
(* The contract of the store, checked over Spec *)

\* how often x stands in seq
occurrences(seq, x) == Cardinality({i \in 1..Len(seq) : seq[i] = x})

\* C1: once add(k, v) has returned, the rebalance pass it triggered included,
\* contains(k) is true and retrieve(k) returns exactly v, as long as k was not
\* removed, expired or reset since (expect[k] is v on exactly these states).
C1_AddRoundTrip ==
    \A k \in Keys :
        expect[k] # NoValue =>
            /\ is_cache_used
            /\ has_store_key(Disk, CACHE_FILE_PATH, k)
            /\ get_from_cache(Disk, CACHE_FILE_PATH, k) = [out |-> "ok", val |-> expect[k]]
            /\ retrieve_from_store(Disk, CACHE_FILE_PATH, k, TRUE)
                   = [out |-> "ok", val |-> expect[k]]

\* an added key whose file a split moved below the root, beside another added key
C1_SplitWitness ==
    \E k, other \in Keys :
        /\ k # other
        /\ expect[k] # NoValue
        /\ expect[other] # NoValue
        /\ Len(Dirname(get_store_id(Disk, CACHE_FILE_PATH, k))) > Len(CACHE_FILE_PATH) + 1
        /\ Dirname(get_store_id(Disk, CACHE_FILE_PATH, k))
               # Dirname(get_store_id(Disk, CACHE_FILE_PATH, other))

\* the disk the step leaves
DiskAfter == [dirs |-> dirs', files |-> files',
              index_exists |-> index_exists', index_lines |-> index_lines']

\* the step is an add of k that found k present: one index line more, k's own
IsReAdd(k) ==
    /\ expect[k] # NoValue
    /\ index_lines' = Append(index_lines, index_entry(strftime(now), key_digest(k), k))

\* C2: re-adding a key that is present overwrites it: retrieve(k) returns the
\* value of the latest add, list_keys() does not grow and holds k exactly once.
C2_ReAddOverwrites ==
    [][\A k \in Keys :
          IsReAdd(k) =>
              /\ expect'[k] # NoValue
              /\ retrieve_from_store(DiskAfter, CACHE_FILE_PATH', k, TRUE)
                     = [out |-> "ok", val |-> expect'[k]]
              /\ Len(list_keys(DiskAfter)) = Len(list_keys(Disk))
              /\ occurrences(list_keys(DiskAfter), Str(k)) = 1]_vars

\* a key added three times in a row, v2 the value of the last add
C2_ReAddWitness ==
    \E k \in Keys :
        /\ expect[k] = "v2"
        /\ Len(index_lines) = 3
        /\ \A i \in 1..3 : line_digest(index_lines[i]) = key_digest(k)
        /\ list_keys(Disk) = <<Str(k)>>

\* the keys live by the contract: added, and not removed, expired or reset since
LiveKeys == {k \in Keys : live[k] >= 0}

\* whether the index holds a line of the key's digest
HasIndexLine(fs, k) ==
    \E i \in 1..Len(fs.index_lines) : line_digest(fs.index_lines[i]) = key_digest(k)

\* C3: after any sequence of add, remove, invalidate_expired and rebalance,
\* list_keys() is the sorted list, without duplicates, of the original key
\* strings of the keys added and not removed or expired since their last add.
C3_ListKeysAreLiveKeys ==
    is_cache_used => list_keys(Disk) = Sorted({Str(k) : k \in LiveKeys})

\* C4: for a key never added, or removed after its last add, retrieve(k)
\* returns the absent sentinel and retrieve(k, fail_on_missing=true) fails with
\* NotFound.
C4_AbsentKeyNotFound ==
    \A k \in Keys :
        live[k] = Gone =>
            /\ retrieve_from_store(Disk, CACHE_FILE_PATH, k, FALSE)
                   = [out |-> "ok", val |-> NoValue]
            /\ retrieve_from_store(Disk, CACHE_FILE_PATH, k, TRUE)
                   = [out |-> "NotFound", val |-> NoValue]

\* retrieve failed with NotFound on a store split into nodes, a key removed after
\* its add and another key still stored
C4_RemovedWitness ==
    /\ outcome = "NotFound"
    /\ index_exists
    /\ Cardinality(dirs) > 1
    /\ \E k \in Keys : live[k] = Gone /\ ~has_store_key(Disk, CACHE_FILE_PATH, k)
    /\ \E k \in Keys : live[k] >= 0 /\ has_store_key(Disk, CACHE_FILE_PATH, k)

\* C5: remove(k) is idempotent: on every store, for every key, present or not,
\* remove(k) raises no error and leaves contains(k) false, and a second
\* remove(k) raises no error and leaves the store as the first one left it.
C5_RemoveIdempotent ==
    is_cache_used =>
        \A k \in Keys :
            \E once \in {remove_from_cache_multiple(Disk, CACHE_FILE_PATH, <<k>>)} :
            \E twice \in {remove_from_cache_multiple(once.fs, CACHE_FILE_PATH, <<k>>)} :
                /\ once.out = "ok"
                /\ ~has_store_key(once.fs, CACHE_FILE_PATH, k)
                /\ twice.out = "ok"
                /\ twice.fs = once.fs

\* a store holding a present key, in a node below the root, and an index without
\* any line of another key
C5_PresentAndAbsentWitness ==
    /\ is_cache_used
    /\ index_exists
    /\ \E k \in Keys :
          /\ has_store_key(Disk, CACHE_FILE_PATH, k)
          /\ HasIndexLine(Disk, k)
          /\ Len(get_store_id(Disk, CACHE_FILE_PATH, k)) > Len(CACHE_FILE_PATH) + 1
    /\ \E k \in Keys : ~has_store_key(Disk, CACHE_FILE_PATH, k) /\ ~HasIndexLine(Disk, k)

\* C6: expiry, for every key accepted by add, a string or not: a key whose
\* entry is dated before the cutoff of an invalidate_expired made since is not
\* contained and has no index line, and every entry not dated before the
\* cutoff keeps its content file and its index line.
C6_ExpiryByDate ==
    is_cache_used =>
        \A k \in Keys :
            /\ live[k] = Expired =>
                   ~has_store_key(Disk, CACHE_FILE_PATH, k) /\ ~HasIndexLine(Disk, k)
            /\ live[k] >= 0 =>
                   has_store_key(Disk, CACHE_FILE_PATH, k) /\ HasIndexLine(Disk, k)

\* the leaf directories of the tree
Leaves(fs) == {d \in fs.dirs : gen_directories_under(fs, d) = <<>>}

\* C7: once a rebalance pass has run to completion, no leaf directory holds
\* more than the cap of content files, whatever the store was before the pass.
C7_NoLeafOverCap ==
    is_cache_used =>
        \E done \in {rebalance_cache_tree(Disk, CACHE_FILE_PATH, <<>>, MAX_NODE_FILES)} :
            \A d \in Leaves(done) :
                Cardinality(content_files(done, d)) <= MAX_NODE_FILES

\* a leaf below the root that is over the cap, for the pass to split
C7_OverCapWitness ==
    /\ is_cache_used
    /\ \E d \in Leaves(Disk) :
          /\ d # CACHE_FILE_PATH
          /\ Cardinality(content_files(Disk, d)) > MAX_NODE_FILES
    /\ rebalance_cache_tree(Disk, CACHE_FILE_PATH, <<>>, MAX_NODE_FILES) # Disk

\* C8: after any number of splits, locate(digest) resolves to the leaf
\* directory that holds the content file of every key stored: a split moves a
\* file into the child find_node routes its digest to.
C8_LocateFindsFile ==
    is_cache_used =>
        \A p \in DOMAIN files :
            find_node(Disk, get_file_from_filepath(p), CACHE_FILE_PATH) = Dirname(p)

\* two content files in different leaves, one of them three splits deep
C8_DeepSplitWitness ==
    /\ is_cache_used
    /\ \E p, q \in DOMAIN files :
          /\ Dirname(p) # Dirname(q)
          /\ Len(p) >= Len(CACHE_FILE_PATH) + 4

\* C9: when the store is enabled and the key is present, read_cached does not
\* call the producer, returns the stored value and leaves the store as it is,
\* whatever the producer would return or raise.
C9_HitSkipsProducer ==
    is_cache_used =>
        \A k \in Keys :
            has_store_key(Disk, CACHE_FILE_PATH, k) =>
                \A produced \in ProducerOutcomes :
                    \E read \in {read_cached(Disk, CACHE_FILE_PATH, k, produced, now,
                                             REBALANCING_LIMIT, MAX_NODE_FILES)} :
                        /\ ~read.called
                        /\ read.out = "hit"
                        /\ read.val = files[get_store_id(Disk, CACHE_FILE_PATH, k)]
                        /\ read.fs = Disk

\* read_cached has just answered from the store, which holds v2 for some key
C9_HitWitness ==
    /\ outcome = "hit"
    /\ \E k \in Keys : expect[k] = "v2" /\ has_store_key(Disk, CACHE_FILE_PATH, k)

\* C10: while the store is unconfigured, every data operation is a no-op or a
\* pass-through: nothing is written and no operation raises an error (the
\* error of the producer, passed through, and NotFound are not the store's).
C10_UnconfiguredNoOp ==
    ~is_cache_used =>
        /\ outcome \in {"ok", "ProducerError", "NotFound"}
        /\ dirs = {}
        /\ files = NoFiles
        /\ ~index_exists

\* the step is a reset of a store that held entries: only empty_store removes the index
IsReset == is_cache_used /\ index_exists /\ ~index_exists'

\* C14: after reset() on a configured store, whatever its tree and content,
\* the root holds no directory, no content file and no index, list_keys() is
\* empty, contains(k) is false for every key, and the store is still enabled
\* with its configuration unchanged.
C14_ResetEmptiesStore ==
    [][IsReset =>
          /\ dirs' \subseteq {CACHE_FILE_PATH}
          /\ files' = NoFiles
          /\ list_keys(DiskAfter) = <<>>
          /\ \A k \in Keys : ~has_store_key(DiskAfter, CACHE_FILE_PATH', k)
          /\ is_cache_used'
          /\ UNCHANGED config]_vars

\* a store three splits deep, with content, that reset empties
C14_DeepStoreWitness ==
    /\ is_cache_used
    /\ index_exists
    /\ \E p \in DOMAIN files : Len(p) >= Len(CACHE_FILE_PATH) + 4
    /\ empty_store(Disk, CACHE_FILE_PATH).dirs = {CACHE_FILE_PATH}

\* the expiry_days a store is configured with again: the entries of the days
\* before expire, or only those of the days before yesterday
ConfigureExpiryDays == {0, 1}

\* whether two indexes hold the same lines of the key's digest
SameIndexLines(fs, other, k) ==
    SelectSeq(fs.index_lines, LAMBDA line : line_digest(line) = key_digest(k))
        = SelectSeq(other.index_lines, LAMBDA line : line_digest(line) = key_digest(k))

\* C15: set_store_path sweeps the expired entries before it returns: on a root
\* that holds entries it raises nothing, every entry dated strictly before
\* today minus expiry_days has no content file and no index line afterwards,
\* and every other entry keeps its content file and its index lines.
C15_ConfigureSweeps ==
    is_cache_used =>
        \A days \in ConfigureExpiryDays :
            LET configured(swept) ==
                    /\ swept.out = "ok"
                    /\ \A k \in LiveKeys :
                          IF minus_days(now, days) > live[k]
                          THEN /\ ~has_store_key(swept.fs, CACHE_FILE_PATH, k)
                               /\ ~HasIndexLine(swept.fs, k)
                          ELSE /\ has_store_key(swept.fs, CACHE_FILE_PATH, k)
                                    = has_store_key(Disk, CACHE_FILE_PATH, k)
                               /\ SameIndexLines(swept.fs, Disk, k)
            IN  configured(set_store_path(Disk, PathStr(CACHE_FILE_PATH), now, days))

\* C17: a key added again inside the expiry window survives the sweep: when the
\* last add of a key is not dated before the cutoff of any sweep made since,
\* whatever the dates of its earlier adds, the key is contained and listed.
C17_ReAddedKeyKept ==
    is_cache_used =>
        \A k \in LiveKeys :
            /\ has_store_key(Disk, CACHE_FILE_PATH, k)
            /\ occurrences(list_keys(Disk), Str(k)) = 1

\* the digests a key can have: every hex digit of the width of Md5Hex
Digests == {<<HexLower[i]>> : i \in 1..16}

\* the largest name a node can have: the upper bound of the root
AllF == Repeat(<<"f">>, 2 * NodeNameBytes)

\* the internal nodes of the tree
InternalNodes(fs) == {d \in fs.dirs : gen_directories_under(fs, d) # <<>>}

\* the last name of a sorted listing
LargestName(names) == names[Len(names)]

\* C20: the largest child of every internal node is named by the upper bound
\* of the node, all F at the root and the name of the node below, and find_node
\* from the root answers a node for every digest, never InconsistentTree, the
\* root itself when it is a leaf.
C20_LocateCoversDigests ==
    is_cache_used =>
        /\ \A d \in InternalNodes(Disk) :
              LargestName(gen_directories_under(Disk, d))
                  = IF d = CACHE_FILE_PATH THEN AllF ELSE get_file_from_filepath(d)
        /\ \A digest \in Digests :
              find_node(Disk, digest, CACHE_FILE_PATH) # InconsistentTree

\* a tree whose root is split and holds an internal node below it
C20_InnerNodeWitness ==
    /\ is_cache_used
    /\ \E d \in InternalNodes(Disk) : d # CACHE_FILE_PATH
    /\ \E digest \in Digests :
          Len(find_node(Disk, digest, CACHE_FILE_PATH)) >= Len(CACHE_FILE_PATH) + 3

\* a configured store whose root is a leaf without any content file
C20_EmptyRootWitness ==
    /\ is_cache_used
    /\ CACHE_FILE_PATH \in Leaves(Disk)
    /\ files = NoFiles
    /\ \A digest \in Digests : find_node(Disk, digest, CACHE_FILE_PATH) = CACHE_FILE_PATH

\* C11: every step that changes the file system (content write, index append,
\* index rewrite, content deletion, creation of a child directory, move of a
\* file, deletion of a reset) is made by the thread that holds the lock.
C11_MutationsUnderLock ==
    [][disk' # disk => lock \in Threads /\ threads'[lock] # threads[lock]]_vars

\* C12: the producer is called only by a thread that does not hold the lock.
C12_ProducerCalledUnlocked ==
    \A t \in Threads : At(t, "read_func") => lock # t

\* a thread is about to call its producer while the other thread holds the
\* lock and goes on with its add
C12_ProducerBesideLockWitness ==
    \E t \in Threads, u \in Threads :
        /\ At(t, "read_func")
        /\ lock = u
        /\ At(u, "append_content")

\* the thread has made its call and the call has ended
Finished(t) == At(t, "idle") /\ threads[t].calls = MaxCalls

\* C13: when the two threads call read_cached for the same key and nothing
\* else, under every interleaving a call whose producer did not raise does not
\* fail and returns a value one of the producers returned or the store held,
\* and once both have returned the content file of the key holds such a value.
C13_ConcurrentFetch ==
    \A t \in Threads :
        (/\ Finished(t)
         /\ \A u \in Threads : threads[u].op = "read_cached" /\ threads[u].key = threads[t].key
         /\ threads[t].result # "ProducerError")
        => /\ threads[t].result = "ok"
           /\ threads[t].content \in Values
           /\ (\A u \in Threads : Finished(u)) =>
                  get_from_cache(Disk, CACHE_FILE_PATH, threads[t].key).val \in Values

\* C18: an add makes a rebalance pass exactly when the number of index lines
\* its own append resulted in is a multiple of the rebalancing limit.
C18_RebalanceOnOwnMultiple ==
    \A t \in Threads :
        threads[t].rebalanced # "unset" =>
            (threads[t].rebalanced = "yes" <=> threads[t].own_lines % REBALANCING_LIMIT = 0)

\* the step of thread t is its producer raising
ProducerRaised(t) ==
    At(t, "read_func") /\ threads'[t].pc = "idle" /\ threads'[t].result = "ProducerError"

\* C16: when the producer raises on a miss the error reaches the caller of
\* read_cached and the call has changed nothing: the step writes no content file
\* and no index line, the call has written none before, the thread does not
\* hold the lock afterwards, and has_store_key of the key is still false when
\* no other thread has made a call.
C16_ProducerErrorLeavesStore ==
    [][\A t \in Threads :
          ProducerRaised(t) =>
              /\ UNCHANGED <<disk, config>>
              /\ ~threads'[t].wrote
              /\ threads'[t].own_lines = NoneInt
              /\ lock' # t
              /\ (\A u \in Threads \ {t} : threads[u].calls = 0) =>
                     ~has_store_key(DiskAfter, CACHE_FILE_PATH, threads[t].key)]_vars

\* a read_cached has ended with the error of its producer, in a store that
\* holds another key, while no other thread has made a call
C16_ProducerRaisedWitness ==
    \E t \in Threads :
        /\ Finished(t)
        /\ threads[t].op = "read_cached"
        /\ threads[t].result = "ProducerError"
        /\ files # NoFiles
        /\ \A u \in Threads \ {t} : threads[u].calls = 0

\* whether the node is a leaf, or has two child directories and no content file
WellShaped(fs, d) ==
    \/ gen_directories_under(fs, d) = <<>>
    \/ /\ Len(gen_directories_under(fs, d)) = 2
       /\ content_files(fs, d) = {}

\* C19: whenever the lock is free, every directory of the tree is a leaf or
\* an internal node with exactly two child directories and no content file;
\* and the content file an add is about to write lies in a leaf.
C19_TreeShape ==
    /\ lock = NoThread => \A d \in dirs : WellShaped(Disk, d)
    /\ \A t \in Threads :
          At(t, "save_content") /\ IsDir(Disk, Dirname(threads[t].locals.filename))
              => Dirname(threads[t].locals.filename) \in Leaves(Disk)

----------------------------------------------------------------------------
(* The splits of _divide_node along every path of the key space *)

\* the width of the key space of the node names, in bits
KeySpaceBits == 8 * NodeNameBytes

\* the thread that walks the tree
Walker == "t1"

\* the nodes_path the walk stands on
WalkPath == Head(threads[Walker].locals.stack)

\* a configured and empty store, the walk on its root
InitDivide ==
    /\ CACHE_FILE_PATH = StoreRoot
    /\ EXPIRY_DAYS \in ExpiryDaysArgs
    /\ MAX_NODE_FILES = 1
    /\ REBALANCING_LIMIT \in RebalancingLimitArgs
    /\ now = StartOfRun
    /\ dirs = {StoreRoot}
    /\ files = NoFiles
    /\ index_exists = FALSE
    /\ index_lines = <<>>
    /\ outcome = "ok"
    /\ expect = [k \in Keys |-> NoValue]
    /\ live = [k \in Keys |-> Gone]
    /\ lock = NoThread
    /\ threads = [t \in Threads |->
                     IF t = Walker
                     THEN [NotStarted EXCEPT !.pc = "rebalancing_required",
                                             !.op = "rebalance_store", !.calls = 1,
                                             !.locals.stack = <<<<>>>>]
                     ELSE NotStarted]

\* the node the walk stands on is divided, its two children are created and
\* the walk goes down into the lower one (child = 1) or the upper one (child = 2)
Divide(child) ==
    /\ Len(WalkPath) < KeySpaceBits - 1
    /\ \E new_paths \in {divide_node(CACHE_FILE_PATH, WalkPath)} :
          WriteDisk(create_path_if_not_exists(
                        create_path_if_not_exists(Disk, new_paths[1]), new_paths[2]))
    /\ threads' = [threads EXCEPT
                      ![Walker].locals.stack =
                          <<Append(WalkPath, divide_names(WalkPath)[child])>>]
    /\ UNCHANGED <<lock, Ambient>>

NextDivide == \E child \in {1, 2} : Divide(child)

SpecDivide == InitDivide /\ [][NextDivide]_vars

\* the inclusive upper bound of the range of a node: the number its name
\* writes, the largest number of the key space for the root
UpperBound(nodes_path) ==
    IF nodes_path = <<>> THEN 2 ^ KeySpaceBits - 1
    ELSE IntHex(nodes_path[Len(nodes_path)])

\* the size of the range of a node at the depth
RangeSize(depth) == 2 ^ (KeySpaceBits - depth)

\* the lower bound of the range of a node
LowerBound(nodes_path) == UpperBound(nodes_path) - RangeSize(Len(nodes_path)) + 1

\* the name that writes the number: lower-case hex digits at the width of a name
NodeName(n) == Lower(FormatX(n, 2 * NodeNameBytes))

\* C21: dividing the node at depth d whose upper bound is hi names the two
\* children hi - 2^(W-1-d) and hi, W bits being the width of the key space;
\* the ranges of the two children do not overlap, have the same size, and
\* together are the range of the node, at every depth below W.
C21_RangeBisection ==
    LET d == Len(WalkPath)
        hi == UpperBound(WalkPath)
        names == divide_names(WalkPath)
        lower == Append(WalkPath, names[1])
        upper == Append(WalkPath, names[2])
    IN  /\ d < KeySpaceBits
        /\ names = <<NodeName(hi - 2 ^ (KeySpaceBits - 1 - d)), NodeName(hi)>>
        /\ LowerBound(lower) = LowerBound(WalkPath)
        /\ UpperBound(lower) + 1 = LowerBound(upper)
        /\ UpperBound(upper) = hi
        /\ UpperBound(lower) - LowerBound(lower) = UpperBound(upper) - LowerBound(upper)
        /\ LowerBound(WalkPath) >= 0
        /\ WalkPath # <<>> =>
               gen_directories_under(Disk, merge_directory_paths(CACHE_FILE_PATH,
                                                                 Dirname(WalkPath)))
                   = <<NodeName(UpperBound(Dirname(WalkPath))
                                - 2 ^ (KeySpaceBits - Len(WalkPath))),
                       NodeName(UpperBound(Dirname(WalkPath)))>>

\* the walk stands on a node of the deepest level, below lower and upper
\* children, whose own children are one apart
C21_DeepestSplitWitness ==
    /\ Len(WalkPath) = KeySpaceBits - 1
    /\ \E i \in 1..(Len(WalkPath) - 1) : WalkPath[i] = WalkPath[i + 1]
    /\ \E i \in 1..(Len(WalkPath) - 1) : WalkPath[i] # WalkPath[i + 1]
    /\ IntHex(divide_names(WalkPath)[1]) + 1 = IntHex(divide_names(WalkPath)[2])

----------------------------------------------------------------------------
(* The rebalance pass and the consistency of index and content *)

\* the steps of rebalance_cache_tree
RebalanceSteps ==
    {"rebalancing_required", "acquire_rebalancing", "create_path_1", "create_path_2",
     "gen_files_under", "rename_path", "gen_directories_under"}

\* the digests stored, each with its payload
Stored(fs) == {<<get_file_from_filepath(p), fs.files[p]>> : p \in DOMAIN fs.files}

\* no thread has called empty_store, whose deletions are not under the lock
NoReset == \A t \in Threads : threads[t].op # "empty_store" /\ threads[t].calls <= 1

\* C22: a rebalance pass only relocates content, alone or beside the adds and
\* the passes of other threads: every step of a pass leaves the stored digests,
\* the payload of each, the number of content files and the index as they
\* were; and as long as no thread resets the store, a digest has one content
\* file, which lies in a leaf whenever the lock is free.
C22_RebalanceRelocatesOnly ==
    /\ [][\A t \in Threads :
              (NoReset /\ threads[t].pc \in RebalanceSteps /\ threads'[t] # threads[t]) =>
                  /\ Stored(DiskAfter) = Stored(Disk)
                  /\ Cardinality(DOMAIN files') = Cardinality(DOMAIN files)
                  /\ UNCHANGED <<index_exists, index_lines>>]_vars
    /\ [](NoReset =>
             /\ Cardinality(DOMAIN files) = Cardinality(Stored(Disk))
             /\ lock = NoThread => \A p \in DOMAIN files : Dirname(p) \in Leaves(Disk))

\* the pass of a rebalance_store has moved a file into a child of the root and
\* has another to move, while the other thread, whose add filled the root, waits
\* for the lock to start the split of its own pass
C22_TwoPassesWitness ==
    \E t \in Threads, u \in Threads :
        /\ threads[t].op = "rebalance_store"
        /\ At(t, "rename_path")
        /\ threads[t].locals.todo # {}
        /\ \E p \in DOMAIN files : Len(p) = Len(CACHE_FILE_PATH) + 2
        /\ threads[u].op = "add_to_store"
        /\ At(u, "acquire_rebalancing")

\* the digests the index lines name
IndexDigests(fs) == {line_digest(fs.index_lines[i]) : i \in 1..Len(fs.index_lines)}

\* the digests of the content files of the tree
ContentDigests(fs) == {get_file_from_filepath(p) : p \in DOMAIN fs.files}

\* C23: whenever no call is in progress, the digests named by the index lines
\* are the digests of the content files of the tree.
C23_IndexMatchesContent ==
    (\A t \in Threads : At(t, "idle")) => IndexDigests(Disk) = ContentDigests(Disk)

\* whether the key has index lines and all of them are dated before the cutoff
AllLinesBefore(fs, k, cutoff) ==
    /\ HasIndexLine(fs, k)
    /\ \A i \in 1..Len(fs.index_lines) :
          line_digest(fs.index_lines[i]) = key_digest(k) => cutoff > line_date(fs.index_lines[i])

\* C24: the expiry scan tolerates the lines it cannot read: whatever lines the
\* index holds, the line of a key with a space among them, a sweep of the
\* store ends without error and removes the content file and the index lines of
\* every str key without a space whose lines are all dated before the cutoff.
C24_ScanSkipsBadLines ==
    is_cache_used =>
        \A as_of_date \in (AsOfDates \ {NoneInt}) \cup {now} :
            LET cutoff == minus_days(as_of_date, EXPIRY_DAYS)
                tolerant(swept) ==
                    /\ swept.out = "ok"
                    /\ AllLinesBefore(Disk, KeyA, cutoff) =>
                           /\ ~has_store_key(swept.fs, CACHE_FILE_PATH, KeyA)
                           /\ ~HasIndexLine(swept.fs, KeyA)
            IN  tolerant(invalidate_expired_entries(Disk, CACHE_FILE_PATH,
                                                    as_of_date, EXPIRY_DAYS))

\* the calls that take entries out of the store
RemovingCalls == {"remove_store_key", "empty_store"}

\* C25: a read_cached whose producer did not raise returns a value, whatever
\* the other thread removes or resets meanwhile: its last read under the lock
\* finds the content file and the call does not fail.
C25_FetchReturnsValue ==
    \A t \in Threads :
        (/\ Finished(t)
         /\ threads[t].op = "read_cached"
         /\ threads[t].result # "ProducerError"
         /\ \A u \in Threads \ {t} : threads[u].op \in RemovingCalls \cup {"none"})
        => threads[t].result = "ok" /\ threads[t].content \in Values

----------------------------------------------------------------------------
(* Progress of the threads under fair scheduling *)

\* a step of the call thread t is running: every thread that can go on is
\* scheduled in the end, and its producer returns or raises
ThreadStep(t) ==
    \/ HasStoreKeyStep(t)
    \/ \E produced \in ProducerOutcomes : ReadFunc(t, produced)
    \/ AcquireAdd(t)
    \/ SaveContent(t)
    \/ AppendContent(t)
    \/ FileSize(t)
    \/ RebalancingRequired(t)
    \/ AcquireRebalancing(t)
    \/ CreatePath1(t)
    \/ CreatePath2(t)
    \/ GenFilesUnder(t)
    \/ \E filename \in Listed : RenamePath(t, filename)
    \/ ReleaseRebalancing(t)
    \/ GenDirectoriesUnder(t)
    \/ GetFromCache(t)
    \/ AcquireRemove(t)
    \/ RemoveFile(t)
    \/ SaveLines(t)
    \/ GetFilesUnderPath(t)
    \/ \E node \in Listed : RemoveAllUnderPath(t, node)
    \/ RemoveIndex(t)

\* the steps at which a thread requests the lock
RequestSteps == {"acquire_add", "acquire_rebalancing", "acquire_remove", "get_from_cache"}

\* thread t can go on: it is inside a call and is not waiting for a lock that
\* another thread holds
Runnable(t) ==
    /\ ~At(t, "idle")
    /\ threads[t].pc \in RequestSteps => lock = NoThread

\* Runnable(t) is ENABLED <<ThreadStep(t)>>_vars written as a state predicate
RunnableIsEnabled ==
    \A t \in Threads : Runnable(t) <=> ENABLED <<ThreadStep(t)>>_vars

\* the scheduler is weakly fair to every thread: WF_vars(ThreadStep(t)), with
\* its ENABLED <<ThreadStep(t)>>_vars given by Runnable(t)
FairlyScheduled(t) ==
    \/ []<>(~Runnable(t))
    \/ []<><<ThreadStep(t)>>_vars

SpecThreadsFair == SpecThreads /\ \A t \in Threads : FairlyScheduled(t)

\* the steps a thread makes inside a locked block
LockedSteps ==
    {"save_content", "append_content", "create_path_1", "create_path_2",
     "gen_files_under", "rename_path", "remove_file", "save_lines"}

\* C26: the lock is held only by a thread inside a locked block of add,
\* remove or a split, so it is released on every way out of them, a raise
\* included; a thread that requests the lock does not hold it; and under fair
\* scheduling every thread that requests the lock gets past its request and
\* every call ends, so no state with a call in progress is a deadlock.
C26_LockReleasedAndProgress ==
    /\ [](\A t \in Threads : lock = t <=> threads[t].pc \in LockedSteps)
    /\ \A t \in Threads :
          (threads[t].pc \in RequestSteps) ~> (threads[t].pc \notin RequestSteps)
    /\ \A t \in Threads : ~At(t, "idle") ~> At(t, "idle")

\* a read_cached waits for the lock for its last read while the other thread
\* holds it in a remove that has deleted the content file of the key: the
\* read is to raise under the lock
C26_ContendedReadWitness ==
    \E t \in Threads, u \in Threads :
        /\ At(t, "get_from_cache")
        /\ lock = u
        /\ At(u, "save_lines")
        /\ threads[u].key = threads[t].key
        /\ ~has_store_key(Disk, CACHE_FILE_PATH, threads[t].key)

====
